---- MODULE Spec2Model ----
(***************************************************************************)
(* Wavefield propagation operators of fracPy (Operators.py): the seven     *)
(* propagator models, the two directional adapters, the lru_cache'd kernel *)
(* factories and clear_cache.                                              *)
(*                                                                         *)
(* Fields and kernels are symbolic.  A field is a base array (esw, ESW or  *)
(* an explicit array "f") followed by the operations applied to it; a      *)
(* kernel is the term of the formula that computes it.  The FFT pair       *)
(* fft2c/ifft2c is kept in normal form: a transform directly followed by   *)
(* its inverse cancels, and a multiplication by a kernel directly followed *)
(* by the multiplication by its conjugate cancels (kernels are treated as  *)
(* phase factors of modulus one).                                          *)
(***************************************************************************)
EXTENDS Integers, Sequences, FiniteSets, TLC

VARIABLES
    cache,      \* per cached function: its entries, least recently used first
    hits,       \* per cached function: cache_info().hits
    misses,     \* per cached function: cache_info().misses
    built,      \* history: per cached function, kernels computed since it was last cleared (array serial)
    lastUse,    \* history: per cached function, {[key, t]}: request number of a cached key's last use
    call,       \* the last adapter call: its name and arguments
    ret,        \* what the last operation returned or raised
    requests,   \* history: the kernel requests made during the last operation, in order of completion
    report,     \* history: the steps of the last operation's clear_cache loop: logger output and clears
    ncalls      \* adapter calls since the last clear_cache

vars == <<cache, hits, misses, built, lastUse, call, ret, requests, report, ncalls>>

(***************************************************************************)
(* Bounds of the model.                                                    *)
(***************************************************************************)
\* adapter calls between two clear_cache calls, general specification
MaxCalls == 2
\* adapter calls between two clear_cache calls, distance sweep
MaxSweep == 13

\* Operators.py:14
cache_size == 10

(***************************************************************************)
(* Fields.                                                                 *)
(***************************************************************************)
\* an array: base array, operations applied (oldest first), size of the
\* last two dimensions, device
Field(base, N, gpu) == [base |-> base, ops |-> <<>>, N |-> N, on_gpu |-> gpu]
\* Python's None passed as `fields`, and the absent field of a raised call
None == [base |-> "None", ops |-> <<>>, N |-> 0, on_gpu |-> FALSE]

\* no kernel (operand of a transform that is not a multiplication)
NoKernel == [N |-> 0, on_gpu |-> FALSE, terms |-> <<>>]

OpFft(shift) == [op |-> "fft2c", shift |-> shift, k |-> NoKernel, conj |-> FALSE]
OpIfft(shift) == [op |-> "ifft2c", shift |-> shift, k |-> NoKernel, conj |-> FALSE]
OpMul(K, cj) == [op |-> "mul", shift |-> FALSE, k |-> K, conj |-> cj]

InverseOp(o) ==
    CASE o.op = "fft2c" -> OpIfft(o.shift)
      [] o.op = "ifft2c" -> OpFft(o.shift)
      [] OTHER -> OpMul(o.k, ~o.conj)

\* apply one operation to a field, cancelling it against the operation
\* before it when the two are inverse to each other
Apply(f, o) ==
    IF Len(f.ops) > 0 /\ f.ops[Len(f.ops)] = InverseOp(o)
    THEN [f EXCEPT !.ops = SubSeq(@, 1, Len(@) - 1)]
    ELSE [f EXCEPT !.ops = Append(@, o)]

\* utils.fft2c(field, fftshiftSwitch=False), utils.ifft2c(field, fftshiftSwitch=False)
fft2c(f, shift) == Apply(f, OpFft(shift))
ifft2c(f, shift) == Apply(f, OpIfft(shift))

\* elementwise product field * kernel
Times(f, K) == Apply(f, OpMul(K, FALSE))
\* ndarray.conj() of a kernel, then the product
TimesConj(f, K) == Apply(f, OpMul(K, TRUE))

\* numpy broadcasting of (..., N, N) against (..., M, M)
Broadcastable(f, K) == f.N = K.N \/ f.N = 1 \/ K.N = 1

\* gpuUtils.isGpuArray
isGpuArray(f) == f.on_gpu

(***************************************************************************)
(* Kernels.  A kernel is the stack, along the wavelength axis, of the      *)
(* terms that compute its slices.  The object- and probe-mode axes are not *)
(* modelled (nosm = npsm = 1 in every input).                              *)
(***************************************************************************)
Kernel(N, gpu, terms) == [N |-> N, on_gpu |-> gpu, terms |-> terms]

\* aspw(u, z, wavelength, L)[1]: the band-limited transfer function H*W
aspw(z, wavelength, L) ==
    [fn |-> "aspw", z |-> z, wavelength |-> wavelength, p |-> L, q |-> 0]

\* scaledASP(u, z, wavelength, dx, dq)[1] and [2]: the factors Q1 and Q2
scaledASP(z, wavelength, dx, dq) ==
    << [fn |-> "scaledASP_Q1", z |-> z, wavelength |-> wavelength, p |-> dx, q |-> dq],
       [fn |-> "scaledASP_Q2", z |-> z, wavelength |-> wavelength, p |-> dx, q |-> dq] >>

\* tuple(reconstruction.spectralDensity): any sequence becomes a tuple
spectralDensity_as_tuple(reconstruction) ==
    [type |-> "tuple", items |-> reconstruction.spectralDensity.items]

\* a tuple of hashable items is hashable, a list or an ndarray is not
Hashable(seq) == seq.type = "tuple"

(***************************************************************************)
(* functools.lru_cache(maxsize=cache_size) around each kernel factory.     *)
(* The memory threaded through a call is the record                        *)
(*   [cache, hits, misses, built, lastUse, requests].                      *)
(***************************************************************************)
make_quad_phase_name == "__make_quad_phase"
make_transferfunction_ASP_name == "__make_transferfunction_ASP"
make_transferfunction_polychrome_ASP_name == "__make_transferfunction_polychrome_ASP"
make_transferfunction_scaledASP_name == "__make_transferfunction_scaledASP"
make_transferfunction_scaledPolychromeASP_name == "__make_transferfunction_scaledPolychromeASP"
make_cache_twoStepPolychrome_name == "__make_cache_twoStepPolychrome"

\* the functions of the module decorated with lru_cache
CachedFunctions ==
    { make_quad_phase_name, make_transferfunction_ASP_name,
      make_transferfunction_polychrome_ASP_name, make_transferfunction_scaledASP_name,
      make_transferfunction_scaledPolychromeASP_name, make_cache_twoStepPolychrome_name }

\* the cache key of a call: positional arguments, then the keyword
\* arguments after a marker (a keyword call and a positional call of the
\* same values are distinct keys)
Key(args, kwds) == [args |-> args, kwds |-> kwds]
Kw(name, value) == [name |-> name, value |-> value]

Keys(entries) == {entries[i].key : i \in 1..Len(entries)}

Find(entries, key) ==
    IF \E i \in 1..Len(entries) : entries[i].key = key
    THEN CHOOSE i \in 1..Len(entries) : entries[i].key = key
    ELSE 0

\* a hit that leaves the entry where it is (first in, first out)
KeepPlace(entries, i) == entries

\* a hit moves the entry to the most-recently-used end
MoveToEnd(entries, i) ==
    SubSeq(entries, 1, i - 1) \o SubSeq(entries, i + 1, Len(entries)) \o <<entries[i]>>

\* a new entry goes to the most-recently-used end; a full cache first
\* drops its least recently used entry
Insert(entries, e) ==
    IF Len(entries) >= cache_size
    THEN Append(Tail(entries), e)
    ELSE Append(entries, e)

\* history: the last-use stamps after `key` was used at request number t
Stamped(stamps, entries, key, t) ==
    {r \in stamps : r.key # key /\ r.key \in Keys(entries)} \cup {[key |-> key, t |-> t]}

Logged(mem, fn, key, outcome, serial) ==
    Append(mem.requests, [fn |-> fn, key |-> key, outcome |-> outcome, serial |-> serial])

NoValue == [serial |-> 0, data |-> <<>>]

\* what a kernel factory's body did: the memory after its nested requests,
\* and the kernel data or the error raised
Computed(mem, data) == [mem |-> mem, raised |-> FALSE, error |-> "", data |-> data]
Failed(mem, error) == [mem |-> mem, raised |-> TRUE, error |-> error, data |-> <<>>]

\* a wrapper that also stores the outcome of a call that raised
lru_cache_wrapper_storing(mem, fn, key, hashable, body) ==
    LET i == Find(mem.cache[fn], key) IN
    IF ~hashable
    THEN [mem |-> mem, raised |-> TRUE, error |-> "TypeError", value |-> NoValue]
    ELSE IF i # 0
    THEN LET entries == MoveToEnd(mem.cache[fn], i)
             t == mem.hits[fn] + mem.misses[fn] + 1
         IN [mem |-> [mem EXCEPT !.cache[fn] = entries,
                                 !.hits[fn] = @ + 1,
                                 !.lastUse[fn] = Stamped(@, entries, key, t),
                                 !.requests = Logged(mem, fn, key, "hit", mem.cache[fn][i].value.serial)],
             raised |-> mem.cache[fn][i].value.serial = 0, error |-> "",
             value |-> mem.cache[fn][i].value]
    ELSE LET m == body.mem
             value == IF body.raised THEN NoValue
                      ELSE [serial |-> m.built[fn] + 1, data |-> body.data]
             entries == Insert(m.cache[fn], [key |-> key, value |-> value])
             t == m.hits[fn] + m.misses[fn] + 1
         IN [mem |-> [m EXCEPT !.cache[fn] = entries,
                               !.misses[fn] = @ + 1,
                               !.built[fn] = IF body.raised THEN @ ELSE @ + 1,
                               !.lastUse[fn] = Stamped(@, entries, key, t),
                               !.requests = Logged(m, fn, key,
                                                   IF body.raised THEN "raise" ELSE "miss",
                                                   value.serial)],
             raised |-> body.raised, error |-> body.error, value |-> value]

\* one call of the cached function fn with the given key; body is the
\* outcome of the wrapped function, used on a miss only
lru_cache_wrapper(mem, fn, key, hashable, body) ==
    LET i == Find(mem.cache[fn], key) IN
    IF ~hashable
    THEN [mem |-> mem, raised |-> TRUE, error |-> "TypeError", value |-> NoValue]
    ELSE IF i # 0
    THEN LET entries == MoveToEnd(mem.cache[fn], i)
             t == mem.hits[fn] + mem.misses[fn] + 1
         IN [mem |-> [mem EXCEPT !.cache[fn] = entries,
                                 !.hits[fn] = @ + 1,
                                 !.lastUse[fn] = Stamped(@, entries, key, t),
                                 !.requests = Logged(mem, fn, key, "hit", mem.cache[fn][i].value.serial)],
             raised |-> FALSE, error |-> "", value |-> mem.cache[fn][i].value]
    ELSE IF body.raised
    THEN [mem |-> [body.mem EXCEPT !.misses[fn] = @ + 1,
                                   !.requests = Logged(body.mem, fn, key, "raise", 0)],
          raised |-> TRUE, error |-> body.error, value |-> NoValue]
    ELSE LET m == body.mem
             value == [serial |-> m.built[fn] + 1, data |-> body.data]
             entries == Insert(m.cache[fn], [key |-> key, value |-> value])
             t == m.hits[fn] + m.misses[fn] + 1
         IN [mem |-> [m EXCEPT !.cache[fn] = entries,
                               !.misses[fn] = @ + 1,
                               !.built[fn] = @ + 1,
                               !.lastUse[fn] = Stamped(@, entries, key, t),
                               !.requests = Logged(m, fn, key, "miss", value.serial)],
             raised |-> FALSE, error |-> "", value |-> value]

(***************************************************************************)
(* The kernel factories.                                                   *)
(***************************************************************************)
make_quad_phase(mem, key, zo, wavelength, Np, dxp, on_gpu) ==
    lru_cache_wrapper(mem, make_quad_phase_name, key, TRUE,
        Computed(mem, Kernel(Np, on_gpu,
            <<[fn |-> "quadraticPhase", z |-> <<zo>>, wavelength |-> wavelength,
               p |-> dxp, q |-> 0]>>)))

make_transferfunction_ASP(mem, fftshiftSwitch, nosm, npsm, Np, zo, wavelength, Lp, nlambda, on_gpu) ==
    lru_cache_wrapper(mem, make_transferfunction_ASP_name,
        Key(<<fftshiftSwitch, nosm, npsm, Np, zo, wavelength, Lp, nlambda, on_gpu>>, <<>>), TRUE,
        IF fftshiftSwitch THEN Failed(mem, "ValueError")
        ELSE IF nlambda > 1 THEN Failed(mem, "ValueError")
        ELSE Computed(mem, Kernel(Np, on_gpu,
                 [n \in 1..nlambda |-> aspw(<<zo>>, wavelength, Lp)])))

\* the polychromatic factory without its test of the shift convention
make_transferfunction_polychrome_ASP_unchecked(mem, propagatorType, fftshiftSwitch, nosm, npsm, Np, zo, wavelength, Lp, nlambda, sd, gpuSwitch) ==
    lru_cache_wrapper(mem, make_transferfunction_polychrome_ASP_name,
        Key(<<propagatorType, fftshiftSwitch, nosm, npsm, Np, zo, wavelength, Lp, nlambda,
              sd, gpuSwitch>>, <<>>), Hashable(sd),
        IF nlambda > Len(sd.items) THEN Failed(mem, "IndexError")
        ELSE Computed(mem, Kernel(Np, gpuSwitch,
                 [n \in 1..nlambda |-> aspw(<<zo>>, sd.items[n], Lp)])))

make_transferfunction_polychrome_ASP(mem, propagatorType, fftshiftSwitch, nosm, npsm, Np, zo, wavelength, Lp, nlambda, sd, gpuSwitch) ==
    lru_cache_wrapper(mem, make_transferfunction_polychrome_ASP_name,
        Key(<<propagatorType, fftshiftSwitch, nosm, npsm, Np, zo, wavelength, Lp, nlambda,
              sd, gpuSwitch>>, <<>>), Hashable(sd),
        IF fftshiftSwitch THEN Failed(mem, "ValueError")
        ELSE IF nlambda > Len(sd.items) THEN Failed(mem, "IndexError")
        ELSE Computed(mem, Kernel(Np, gpuSwitch,
                 [n \in 1..nlambda |-> aspw(<<zo>>, sd.items[n], Lp)])))

\* the scaled factory without its test of the number of wavelengths
make_transferfunction_scaledASP_unchecked(mem, key, fftshiftSwitch, nlambda, Np, zo, wavelength, dxo, dxd, gpuSwitch) ==
    lru_cache_wrapper(mem, make_transferfunction_scaledASP_name, key, TRUE,
        IF fftshiftSwitch THEN Failed(mem, "ValueError")
        ELSE Computed(mem,
                 << Kernel(Np, gpuSwitch, <<scaledASP(<<zo>>, wavelength, dxo, dxd)[1]>>),
                    Kernel(Np, gpuSwitch, <<scaledASP(<<zo>>, wavelength, dxo, dxd)[2]>>) >>))

make_transferfunction_scaledASP(mem, key, fftshiftSwitch, nlambda, Np, zo, wavelength, dxo, dxd, gpuSwitch) ==
    lru_cache_wrapper(mem, make_transferfunction_scaledASP_name, key, TRUE,
        IF fftshiftSwitch THEN Failed(mem, "ValueError")
        ELSE IF nlambda > 1 THEN Failed(mem, "ValueError")
        ELSE Computed(mem,
                 << Kernel(Np, gpuSwitch, <<scaledASP(<<zo>>, wavelength, dxo, dxd)[1]>>),
                    Kernel(Np, gpuSwitch, <<scaledASP(<<zo>>, wavelength, dxo, dxd)[2]>>) >>))

\* the loop of __make_transferfunction_scaledPolychromeASP over the
\* wavelengths n..nlambda: one request of the scaledASP factory per
\* wavelength, its slices appended to Q1 and Q2
RECURSIVE scaledPolychrome_loop(_, _, _, _, _, _, _, _, _, _, _, _)
scaledPolychrome_loop(mem, n, nlambda, fftshiftSwitch, nosm, npsm, Np, zo, sd, dxo, dxd, on_gpu) ==
    IF n > nlambda
    THEN [mem |-> mem, Q1 |-> <<>>, Q2 |-> <<>>]
    ELSE LET r == make_transferfunction_scaledASP(mem,
                      Key(<<"None", fftshiftSwitch, 1, nosm, npsm, Np, zo, sd.items[n], dxo, dxd>>,
                          <<Kw("gpuSwitch", on_gpu)>>),
                      fftshiftSwitch, 1, Np, zo, sd.items[n], dxo, dxd, on_gpu)
             rest == scaledPolychrome_loop(r.mem, n + 1, nlambda, fftshiftSwitch, nosm, npsm,
                                           Np, zo, sd, dxo, dxd, on_gpu)
         IN [mem |-> rest.mem,
             Q1 |-> <<r.value.data[1].terms[1]>> \o rest.Q1,
             Q2 |-> <<r.value.data[2].terms[1]>> \o rest.Q2]

make_transferfunction_scaledPolychromeASP(mem, fftshiftSwitch, nlambda, nosm, npsm, zo, Np, sd, dxo, dxd, on_gpu) ==
    lru_cache_wrapper(mem, make_transferfunction_scaledPolychromeASP_name,
        Key(<<fftshiftSwitch, nlambda, nosm, npsm, zo, Np, sd, dxo, dxd, on_gpu>>, <<>>),
        Hashable(sd),
        IF fftshiftSwitch THEN Failed(mem, "ValueError")
        ELSE IF nlambda > Len(sd.items) THEN Failed(mem, "IndexError")
        ELSE LET l == scaledPolychrome_loop(mem, 1, nlambda, fftshiftSwitch, nosm, npsm, Np, zo,
                                            sd, dxo, dxd, on_gpu)
             IN Computed(l.mem, << Kernel(Np, on_gpu, l.Q1), Kernel(Np, on_gpu, l.Q2) >>))

\* the two-step factory computing its quadratic phase itself, without a
\* request of the quadratic-phase cache
make_cache_twoStepPolychrome_inline(mem, fftshiftSwitch, nlambda, nosm, npsm, Np, zo, sd, Lp, dxp, on_gpu) ==
    lru_cache_wrapper(mem, make_cache_twoStepPolychrome_name,
        Key(<<fftshiftSwitch, nlambda, nosm, npsm, Np, zo, sd, Lp, dxp, on_gpu>>, <<>>),
        Hashable(sd),
        IF fftshiftSwitch THEN Failed(mem, "ValueError")
        ELSE IF nlambda > Len(sd.items) THEN Failed(mem, "IndexError")
        ELSE Computed(mem,
                 << Kernel(Np, on_gpu,
                        [n \in 1..nlambda |->
                            aspw(<<zo, sd.items[1], sd.items[n]>>, sd.items[n], Lp)]),
                    Kernel(Np, on_gpu,
                        <<[fn |-> "quadraticPhase", z |-> <<zo>>, wavelength |-> sd.items[1],
                           p |-> dxp, q |-> 0]>>) >>))

make_cache_twoStepPolychrome(mem, fftshiftSwitch, nlambda, nosm, npsm, Np, zo, sd, Lp, dxp, on_gpu) ==
    lru_cache_wrapper(mem, make_cache_twoStepPolychrome_name,
        Key(<<fftshiftSwitch, nlambda, nosm, npsm, Np, zo, sd, Lp, dxp, on_gpu>>, <<>>),
        Hashable(sd),
        IF fftshiftSwitch THEN Failed(mem, "ValueError")
        ELSE IF nlambda > Len(sd.items) THEN Failed(mem, "IndexError")
        ELSE LET transferFunction ==
                     Kernel(Np, on_gpu,
                         [n \in 1..nlambda |->
                             \* z = zo * (1 - spectralDensity[0] / spectralDensity[n])
                             aspw(<<zo, sd.items[1], sd.items[n]>>, sd.items[n], Lp)])
                 q == make_quad_phase(mem,
                          Key(<<zo, sd.items[1], Np, dxp, on_gpu>>, <<>>),
                          zo, sd.items[1], Np, dxp, on_gpu)
             IN Computed(q.mem, <<transferFunction, q.value.data>>))

(***************************************************************************)
(* The propagators.  Each returns the memory after its kernel requests and *)
(* either the pair (first, second) or the error raised; `entered` lists    *)
(* the propagator functions entered, with the inverse argument each got    *)
(* (FALSE for a function that has no such parameter).                      *)
(***************************************************************************)
Entered(fn, inverse) == <<[fn |-> fn, inverse |-> inverse]>>

Return(mem, first, second, entered) ==
    [mem |-> mem, raised |-> FALSE, error |-> "", first |-> first, second |-> second,
     entered |-> entered]
Raise(mem, error, entered) ==
    [mem |-> mem, raised |-> TRUE, error |-> error, first |-> None, second |-> None,
     entered |-> entered]

propagate_fraunhofer(mem, fields, params, reconstruction) ==
    Return(mem, reconstruction.esw, fft2c(fields, params.fftshiftSwitch),
           Entered("propagate_fraunhofer", FALSE))

propagate_fraunhofer_inv(mem, fields, params, reconstruction) ==
    Return(mem, reconstruction.esw, ifft2c(fields, params.fftshiftSwitch),
           Entered("propagate_fraunhofer_inv", FALSE))

\* the Fresnel propagator multiplying the passed array in place
\* (fields *= quadratic_phase)
propagate_fresnel_inplace(mem, fields, params, reconstruction) ==
    LET z == reconstruction.zo
        on_gpu == isGpuArray(fields)
        q == make_quad_phase(mem,
                 Key(<<z, reconstruction.wavelength, fields.N, reconstruction.dxp>>,
                     <<Kw("on_gpu", on_gpu)>>),
                 z, reconstruction.wavelength, fields.N, reconstruction.dxp, on_gpu)
        quadratic_phase == q.value.data
        e == Entered("propagate_fresnel", FALSE)
    IN IF ~Broadcastable(fields, quadratic_phase) THEN Raise(q.mem, "ValueError", e)
       ELSE Return([q.mem EXCEPT !.objects.fields = Times(fields, quadratic_phase)],
                   reconstruction.esw,
                   fft2c(Times(fields, quadratic_phase), params.fftshiftSwitch), e)

propagate_fresnel(mem, fields, params, reconstruction) ==
    LET z == reconstruction.zo
        on_gpu == isGpuArray(fields)
        q == make_quad_phase(mem,
                 Key(<<z, reconstruction.wavelength, fields.N, reconstruction.dxp>>,
                     <<Kw("on_gpu", on_gpu)>>),
                 z, reconstruction.wavelength, fields.N, reconstruction.dxp, on_gpu)
        quadratic_phase == q.value.data
        e == Entered("propagate_fresnel", FALSE)
    IN IF ~Broadcastable(fields, quadratic_phase) THEN Raise(q.mem, "ValueError", e)
       ELSE Return(q.mem, reconstruction.esw,
                   fft2c(Times(fields, quadratic_phase), params.fftshiftSwitch), e)

propagate_fresnel_inv(mem, fields, params, reconstruction) ==
    LET z == reconstruction.zo
        q == make_quad_phase(mem,
                 Key(<<z, reconstruction.wavelength, reconstruction.Np, reconstruction.dxp>>,
                     <<Kw("on_gpu", params.gpuSwitch)>>),
                 z, reconstruction.wavelength, reconstruction.Np, reconstruction.dxp,
                 params.gpuSwitch)
        quadratic_phase == q.value.data
        e == Entered("propagate_fresnel_inv", FALSE)
    IN IF ~Broadcastable(fields, quadratic_phase) THEN Raise(q.mem, "ValueError", e)
       ELSE Return(q.mem, reconstruction.esw,
                   TimesConj(ifft2c(fields, params.fftshiftSwitch), quadratic_phase), e)

propagate_ASP(mem, fields, params, reconstruction, inverse) ==
    LET e == Entered("propagate_ASP", inverse) IN
    IF params.fftshiftSwitch THEN Raise(mem, "ValueError", e)
    ELSE IF reconstruction.nlambda > 1 THEN Raise(mem, "ValueError", e)
    ELSE LET z == reconstruction.zo
             t == make_transferfunction_ASP(mem, params.fftshiftSwitch, reconstruction.nosm,
                      reconstruction.npsm, reconstruction.Np, z, reconstruction.wavelength,
                      reconstruction.Lp, reconstruction.nlambda, params.gpuSwitch)
             transfer_function == t.value.data
         IN IF t.raised THEN Raise(t.mem, t.error, e)
            ELSE IF ~Broadcastable(fields, transfer_function) THEN Raise(t.mem, "ValueError", e)
            ELSE Return(t.mem, reconstruction.esw,
                     ifft2c(IF inverse THEN TimesConj(fft2c(fields, FALSE), transfer_function)
                                       ELSE Times(fft2c(fields, FALSE), transfer_function),
                            FALSE), e)

\* propagate_ASP_inv calling propagate_ASP with inverse left at its default
propagate_ASP_inv_unset(mem, fields, params, reconstruction) ==
    LET r == propagate_ASP(mem, fields, params, reconstruction, FALSE)
    IN [r EXCEPT !.entered = Entered("propagate_ASP_inv", FALSE) \o @]

propagate_ASP_inv(mem, fields, params, reconstruction) ==
    LET r == propagate_ASP(mem, fields, params, reconstruction, TRUE)
    IN [r EXCEPT !.entered = Entered("propagate_ASP_inv", FALSE) \o @]

propagate_twoStepPolychrome(mem, fields, params, reconstruction, inverse) ==
    LET e == Entered("propagate_twoStepPolychrome", inverse)
        z == reconstruction.zo
        c == make_cache_twoStepPolychrome(mem, params.fftshiftSwitch, reconstruction.nlambda,
                 reconstruction.nosm, reconstruction.npsm, reconstruction.Np, z,
                 spectralDensity_as_tuple(reconstruction), reconstruction.Lp,
                 reconstruction.dxp, params.gpuSwitch)
        transfer_function == c.value.data[1]
        quadratic_phase == c.value.data[2]
    IN IF c.raised THEN Raise(c.mem, c.error, e)
       ELSE IF ~Broadcastable(fields, transfer_function) THEN Raise(c.mem, "ValueError", e)
       ELSE IF inverse
       THEN Return(c.mem, reconstruction.esw,
                ifft2c(TimesConj(fft2c(TimesConj(fields, quadratic_phase), FALSE),
                                 transfer_function), FALSE), e)
       ELSE Return(c.mem, reconstruction.esw,
                fft2c(Times(ifft2c(Times(fft2c(fields, FALSE), transfer_function), FALSE),
                            quadratic_phase),
                      params.fftshiftSwitch), e)

propagate_twoStepPolychrome_inv(mem, fields, params, reconstruction) ==
    LET e == Entered("propagate_twoStepPolychrome_inv", FALSE)
        F == propagate_twoStepPolychrome(mem, fields, params, reconstruction, TRUE)
        G == propagate_twoStepPolychrome(F.mem, reconstruction.ESW, params, reconstruction, TRUE)
    IN IF F.raised THEN [F EXCEPT !.entered = e \o @]
       ELSE IF G.raised THEN [G EXCEPT !.entered = e \o F.entered \o @]
       ELSE Return(G.mem, G.second, F.second, e \o F.entered \o G.entered)

propagate_scaledASP(mem, fields, params, reconstruction, inverse) ==
    LET e == Entered("propagate_scaledASP", inverse)
        z == reconstruction.zo
        t == make_transferfunction_scaledASP(mem,
                 Key(<<params.propagatorType, params.fftshiftSwitch, reconstruction.nlambda,
                       reconstruction.nosm, reconstruction.npsm, reconstruction.Np, z,
                       reconstruction.wavelength, reconstruction.dxo, reconstruction.dxd,
                       params.gpuSwitch>>, <<>>),
                 params.fftshiftSwitch, reconstruction.nlambda, reconstruction.Np, z,
                 reconstruction.wavelength, reconstruction.dxo, reconstruction.dxd,
                 params.gpuSwitch)
        Q1 == t.value.data[1]
        Q2 == t.value.data[2]
    IN IF t.raised THEN Raise(t.mem, t.error, e)
       ELSE IF ~Broadcastable(fields, Q1) THEN Raise(t.mem, "ValueError", e)
       ELSE IF inverse
       THEN Return(t.mem, reconstruction.esw,
                TimesConj(ifft2c(TimesConj(fft2c(fields, FALSE), Q2), FALSE), Q1), e)
       ELSE Return(t.mem, reconstruction.esw,
                ifft2c(Times(fft2c(Times(fields, Q1), FALSE), Q2), FALSE), e)

propagate_scaledASP_inv(mem, fields, params, reconstruction) ==
    LET r == propagate_scaledASP(mem, fields, params, reconstruction, TRUE)
    IN [r EXCEPT !.entered = Entered("propagate_scaledASP_inv", FALSE) \o @]

propagate_scaledPolychromeASP(mem, fields, params, reconstruction, inverse) ==
    LET e == Entered("propagate_scaledPolychromeASP", inverse)
        z == reconstruction.zo
        t == make_transferfunction_scaledPolychromeASP(mem, params.fftshiftSwitch,
                 reconstruction.nlambda, reconstruction.nosm, reconstruction.npsm, z,
                 reconstruction.Np, spectralDensity_as_tuple(reconstruction),
                 reconstruction.dxo, reconstruction.dxp, params.gpuSwitch)
        Q1 == t.value.data[1]
        Q2 == t.value.data[2]
    IN IF t.raised THEN Raise(t.mem, t.error, e)
       ELSE IF ~Broadcastable(fields, Q1) THEN Raise(t.mem, "ValueError", e)
       ELSE IF inverse
       THEN Return(t.mem, reconstruction.esw,
                TimesConj(ifft2c(TimesConj(fft2c(fields, FALSE), Q1), FALSE), Q2), e)
       ELSE Return(t.mem, reconstruction.esw,
                ifft2c(Times(fft2c(Times(fields, Q1), FALSE), Q2), FALSE), e)

propagate_scaledPolychromeASP_inv(mem, fields, params, reconstruction) ==
    LET r == propagate_scaledPolychromeASP(mem, fields, params, reconstruction, TRUE)
    IN [r EXCEPT !.entered = Entered("propagate_scaledPolychromeASP_inv", FALSE) \o @]

propagate_polychromeASP(mem, fields, params, reconstruction, inverse) ==
    LET e == Entered("propagate_polychromeASP", inverse)
        z == reconstruction.zo
        t == make_transferfunction_polychrome_ASP(mem, params.propagatorType,
                 params.fftshiftSwitch, reconstruction.nosm, reconstruction.npsm,
                 reconstruction.Np, z, reconstruction.wavelength, reconstruction.Lp,
                 reconstruction.nlambda, spectralDensity_as_tuple(reconstruction),
                 params.gpuSwitch)
        transfer_function == t.value.data
    IN IF t.raised THEN Raise(t.mem, t.error, e)
       ELSE IF ~Broadcastable(fields, transfer_function) THEN Raise(t.mem, "ValueError", e)
       ELSE Return(t.mem, reconstruction.esw,
                ifft2c(IF inverse THEN TimesConj(fft2c(fields, FALSE), transfer_function)
                                  ELSE Times(fft2c(fields, FALSE), transfer_function),
                       FALSE), e)

propagate_polychromeASP_inv(mem, fields, params, reconstruction) ==
    LET r == propagate_polychromeASP(mem, fields, params, reconstruction, TRUE)
    IN [r EXCEPT !.entered = Entered("propagate_polychromeASP_inv", FALSE) \o @]

(***************************************************************************)
(* The registry and the two adapters.                                      *)
(***************************************************************************)
forward_lookup_dictionary ==
    [Fraunhofer |-> "propagate_fraunhofer",
     Fresnel |-> "propagate_fresnel",
     ASP |-> "propagate_ASP",
     polychromeASP |-> "propagate_polychromeASP",
     scaledASP |-> "propagate_scaledASP",
     scaledPolychromeASP |-> "propagate_scaledPolychromeASP",
     twoStepPolychrome |-> "propagate_twoStepPolychrome"]

reverse_lookup_dictionary ==
    [Fraunhofer |-> "propagate_fraunhofer_inv",
     Fresnel |-> "propagate_fresnel_inv",
     ASP |-> "propagate_ASP_inv",
     polychromeASP |-> "propagate_polychromeASP_inv",
     scaledASP |-> "propagate_scaledASP_inv",
     scaledPolychromeASP |-> "propagate_scaledPolychromeASP_inv",
     twoStepPolychrome |-> "propagate_twoStepPolychrome_inv"]

\* method(fields, params, reconstruction) for the function object `method`:
\* the functions with an inverse parameter are called with its default, False
CallMethod(method, mem, fields, params, reconstruction) ==
    CASE method = "propagate_fraunhofer" -> propagate_fraunhofer(mem, fields, params, reconstruction)
      [] method = "propagate_fraunhofer_inv" -> propagate_fraunhofer_inv(mem, fields, params, reconstruction)
      [] method = "propagate_fresnel" -> propagate_fresnel(mem, fields, params, reconstruction)
      [] method = "propagate_fresnel_inv" -> propagate_fresnel_inv(mem, fields, params, reconstruction)
      [] method = "propagate_ASP" -> propagate_ASP(mem, fields, params, reconstruction, FALSE)
      [] method = "propagate_ASP_inv" -> propagate_ASP_inv(mem, fields, params, reconstruction)
      [] method = "propagate_polychromeASP" -> propagate_polychromeASP(mem, fields, params, reconstruction, FALSE)
      [] method = "propagate_polychromeASP_inv" -> propagate_polychromeASP_inv(mem, fields, params, reconstruction)
      [] method = "propagate_scaledASP" -> propagate_scaledASP(mem, fields, params, reconstruction, FALSE)
      [] method = "propagate_scaledASP_inv" -> propagate_scaledASP_inv(mem, fields, params, reconstruction)
      [] method = "propagate_scaledPolychromeASP" -> propagate_scaledPolychromeASP(mem, fields, params, reconstruction, FALSE)
      [] method = "propagate_scaledPolychromeASP_inv" -> propagate_scaledPolychromeASP_inv(mem, fields, params, reconstruction)
      [] method = "propagate_twoStepPolychrome" -> propagate_twoStepPolychrome(mem, fields, params, reconstruction, FALSE)
      [] method = "propagate_twoStepPolychrome_inv" -> propagate_twoStepPolychrome_inv(mem, fields, params, reconstruction)

detector2object(mem, fields, params, reconstruction) ==
    LET fields1 == IF fields = None THEN reconstruction.ESW ELSE fields IN
    IF params.propagatorType \notin DOMAIN reverse_lookup_dictionary
    THEN Raise(mem, "KeyError", <<>>)
    ELSE CallMethod(reverse_lookup_dictionary[params.propagatorType], mem, fields1, params,
                    reconstruction)

\* object2detector falling back to the Fraunhofer model for an unknown name
object2detector_default(mem, fields, params, reconstruction) ==
    LET fields1 == IF fields = None THEN reconstruction.esw ELSE fields
        method == IF params.propagatorType \in DOMAIN forward_lookup_dictionary
                  THEN forward_lookup_dictionary[params.propagatorType]
                  ELSE "propagate_fraunhofer"
    IN CallMethod(method, mem, fields1, params, reconstruction)

object2detector(mem, fields, params, reconstruction) ==
    IF params.propagatorType \notin DOMAIN forward_lookup_dictionary
    THEN Raise(mem, "KeyError", <<>>)
    ELSE LET fields1 == IF fields = None THEN reconstruction.esw ELSE fields
         IN CallMethod(forward_lookup_dictionary[params.propagatorType], mem, fields1, params,
                       reconstruction)

(***************************************************************************)
(* clear_cache.                                                            *)
(***************************************************************************)
\* the list without the polychromatic transfer function
list_of_methods_short ==
    << make_quad_phase_name,
       make_transferfunction_ASP_name,
       make_transferfunction_scaledASP_name,
       make_cache_twoStepPolychrome_name,
       make_transferfunction_scaledPolychromeASP_name >>

list_of_methods ==
    << make_quad_phase_name,
       make_transferfunction_ASP_name,
       make_transferfunction_scaledASP_name,
       make_cache_twoStepPolychrome_name,
       make_transferfunction_polychrome_ASP_name,
       make_transferfunction_scaledPolychromeASP_name >>

\* method.cache_info()
cache_info(mem, fn) ==
    [fn |-> fn, hits |-> mem.hits[fn], misses |-> mem.misses[fn], maxsize |-> cache_size,
     currsize |-> Len(mem.cache[fn])]

\* method.cache_clear(): the entries and the statistics are reset
cache_clear(mem, fn) ==
    [mem EXCEPT !.cache[fn] = <<>>, !.hits[fn] = 0, !.misses[fn] = 0,
                !.built[fn] = 0, !.lastUse[fn] = {}]

\* the loop with the clear of a method before its report
RECURSIVE clear_cache_loop_late(_, _, _, _)
clear_cache_loop_late(mem, steps, logger, i) ==
    IF i > Len(list_of_methods)
    THEN [mem |-> mem, steps |-> steps]
    ELSE LET method == list_of_methods[i]
             cleared == cache_clear(mem, method)
             done == Append(steps, [step |-> "cache_clear", method |-> method,
                                    dropped |-> Len(mem.cache[method])])
             logged == IF logger
                       THEN done \o << [step |-> "debug", method |-> method,
                                        info |-> cache_info(cleared, method)],
                                       [step |-> "info", method |-> method] >>
                       ELSE done
         IN clear_cache_loop_late(cleared, logged, logger, i + 1)

\* the loop of clear_cache from the i-th method on; `steps` is what the
\* loop has done so far: the logger's debug and info records, and the
\* clears with the number of entries each dropped
RECURSIVE clear_cache_loop(_, _, _, _)
clear_cache_loop(mem, steps, logger, i) ==
    IF i > Len(list_of_methods)
    THEN [mem |-> mem, steps |-> steps]
    ELSE LET method == list_of_methods[i]
             logged == IF logger
                       THEN steps \o << [step |-> "debug", method |-> method,
                                         info |-> cache_info(mem, method)],
                                        [step |-> "info", method |-> method] >>
                       ELSE steps
         IN clear_cache_loop(cache_clear(mem, method),
                             Append(logged, [step |-> "cache_clear", method |-> method,
                                             dropped |-> Len(mem.cache[method])]),
                             logger, i + 1)

\* logger is TRUE when a logger is passed, FALSE when it is None
clear_cache(mem, logger) == clear_cache_loop(mem, <<>>, logger, 1)

(***************************************************************************)
(* The state machine: an engine that calls the adapters and clear_cache.   *)
(***************************************************************************)
\* no caller's objects (outside an adapter call)
NoObjects == [fields |-> None, params |-> <<>>, reconstruction |-> <<>>]

Memory ==
    [cache |-> cache, hits |-> hits, misses |-> misses, built |-> built,
     lastUse |-> lastUse, requests |-> <<>>, objects |-> NoObjects]

\* the memory at the start of an adapter call: the caller's objects are the
\* arguments passed; a statement that writes to one of them in place
\* (an augmented assignment, an attribute assignment) changes it here
Loaded(mem, fields, params, reconstruction) ==
    [mem EXCEPT !.objects = [fields |-> fields, params |-> params,
                             reconstruction |-> reconstruction]]

\* what the caller sees after the call: the outcome, and its own objects
Outcome(r) ==
    [raised |-> r.raised, error |-> r.error, first |-> r.first, second |-> r.second,
     entered |-> r.entered, objects |-> r.mem.objects]

Nothing ==
    [raised |-> FALSE, error |-> "", first |-> None, second |-> None, entered |-> <<>>,
     objects |-> NoObjects]

Init ==
    /\ cache = [fn \in CachedFunctions |-> <<>>]
    /\ hits = [fn \in CachedFunctions |-> 0]
    /\ misses = [fn \in CachedFunctions |-> 0]
    /\ built = [fn \in CachedFunctions |-> 0]
    /\ lastUse = [fn \in CachedFunctions |-> {}]
    /\ call = [op |-> "none"]
    /\ ret = Nothing
    /\ requests = <<>>
    /\ report = <<>>
    /\ ncalls = 0

Finish(op, fields, params, reconstruction, r) ==
    /\ cache' = r.mem.cache
    /\ hits' = r.mem.hits
    /\ misses' = r.mem.misses
    /\ built' = r.mem.built
    /\ lastUse' = r.mem.lastUse
    /\ requests' = r.mem.requests
    /\ call' = [op |-> op, fields |-> fields, params |-> params,
                reconstruction |-> reconstruction]
    /\ ret' = Outcome(r)
    /\ report' = <<>>
    /\ ncalls' = ncalls + 1

Object2Detector(fields, params, reconstruction) ==
    Finish("object2detector", fields, params, reconstruction,
           object2detector(Loaded(Memory, fields, params, reconstruction),
                           fields, params, reconstruction))

Detector2Object(fields, params, reconstruction) ==
    Finish("detector2object", fields, params, reconstruction,
           detector2object(Loaded(Memory, fields, params, reconstruction),
                           fields, params, reconstruction))

ClearCache(logger) ==
    LET r == clear_cache(Memory, logger) IN
    /\ cache' = r.mem.cache
    /\ hits' = r.mem.hits
    /\ misses' = r.mem.misses
    /\ built' = r.mem.built
    /\ lastUse' = r.mem.lastUse
    /\ requests' = <<>>
    /\ call' = [op |-> "clear_cache", logger |-> logger]
    /\ ret' = Nothing
    /\ report' = r.steps
    /\ ncalls' = 0

(***************************************************************************)
(* Inputs.                                                                 *)
(***************************************************************************)
PropagatorTypes ==
    {"Fraunhofer", "Fresnel", "ASP", "polychromeASP", "scaledASP", "scaledPolychromeASP",
     "twoStepPolychrome"}

\* the configurations tried: every model name and one unknown name, the
\* shift convention on or off, host or device
ParamsSet ==
    [propagatorType : PropagatorTypes \cup {"Kirchhoff"},
     fftshiftSwitch : BOOLEAN, gpuSwitch : BOOLEAN]

\* the spectral densities tried with a model: one or two wavelengths, as a
\* list or as an ndarray, as far as the model reads them (Fraunhofer and
\* Fresnel read neither spectralDensity nor nlambda, ASP and scaledASP read
\* nlambda only)
SpectralDensities(propagatorType) ==
    IF propagatorType \in {"polychromeASP", "scaledPolychromeASP", "twoStepPolychrome"}
    THEN { [type |-> "list", items |-> <<1>>],
           [type |-> "list", items |-> <<1, 2>>],
           [type |-> "ndarray", items |-> <<1, 2>>] }
    ELSE IF propagatorType \in {"ASP", "scaledASP"}
    THEN { [type |-> "list", items |-> <<1>>],
           [type |-> "list", items |-> <<1, 2>>] }
    ELSE { [type |-> "list", items |-> <<1>>] }

\* the reconstruction object: its arrays live on the device of gpuSwitch
Reconstruction(zo, sd, gpu) ==
    [esw |-> Field("esw", 4, gpu), ESW |-> Field("ESW", 4, gpu),
     zo |-> zo, wavelength |-> 1, spectralDensity |-> sd, nlambda |-> Len(sd.items),
     nosm |-> 1, npsm |-> 1, Np |-> 4, Lp |-> 20, dxp |-> 5, dxo |-> 6, dxd |-> 7]

\* the fields an engine passes: nothing or an array of its own; or, with
\* the configuration of the previous call, the field that call returned
FieldsSet(params, reconstruction) ==
    {None, Field("f", 4, params.gpuSwitch)}
        \cup (IF /\ call.op \in {"object2detector", "detector2object"}
                 /\ ~ret.raised
                 /\ call.params = params
                 /\ call.reconstruction = reconstruction
              THEN {ret.second} ELSE {})

EngineForward ==
    /\ ncalls < MaxCalls
    /\ \E params \in ParamsSet :
         \E sd \in SpectralDensities(params.propagatorType) :
            LET reconstruction == Reconstruction(1, sd, params.gpuSwitch) IN
            \E fields \in FieldsSet(params, reconstruction) :
               Object2Detector(fields, params, reconstruction)

EngineInverse ==
    /\ ncalls < MaxCalls
    /\ \E params \in ParamsSet :
         \E sd \in SpectralDensities(params.propagatorType) :
            LET reconstruction == Reconstruction(1, sd, params.gpuSwitch) IN
            \E fields \in FieldsSet(params, reconstruction) :
               Detector2Object(fields, params, reconstruction)

EngineClear == \E logger \in BOOLEAN : ClearCache(logger)

Next == EngineForward \/ EngineInverse \/ EngineClear

Spec == Init /\ [][Next]_vars

(***************************************************************************)
(* Distance sweep: an engine that keeps one configuration and changes the  *)
(* propagation distance zo from call to call (a new distance, or the first *)
(* one again), as an axial position search does.                           *)
(***************************************************************************)
SweepParams ==
    [propagatorType : PropagatorTypes, fftshiftSwitch : {FALSE}, gpuSwitch : {FALSE}]

SweepDensity(params) ==
    IF params.propagatorType \in {"ASP", "scaledASP"}
    THEN [type |-> "list", items |-> <<1>>]
    ELSE [type |-> "list", items |-> <<1, 2>>]

SweepOps == {"object2detector", "detector2object"}

\* the configuration of the sweep: free for its first call, then kept
SweepParamsNow(op) ==
    IF call.op \in SweepOps
    THEN (IF call.op = op THEN {call.params} ELSE {})
    ELSE SweepParams

\* each call of the sweep moves to a new distance, or comes back to the
\* first distance once the cache is nearly full
SweepDistances ==
    {ncalls + 1} \cup (IF ncalls >= cache_size - 2 THEN {1} ELSE {})

SweepReconstruction(params, zo) ==
    Reconstruction(zo, SweepDensity(params), params.gpuSwitch)

SweepForward ==
    /\ ncalls < MaxSweep
    /\ \E params \in SweepParamsNow("object2detector"), zo \in SweepDistances :
          Object2Detector(None, params, SweepReconstruction(params, zo))

SweepInverse ==
    /\ ncalls < MaxSweep
    /\ \E params \in SweepParamsNow("detector2object"), zo \in SweepDistances :
          Detector2Object(None, params, SweepReconstruction(params, zo))

NextSweep == SweepForward \/ SweepInverse \/ EngineClear

SpecSweep == Init /\ [][NextSweep]_vars

(***************************************************************************)
(* Properties.                                                             *)
(***************************************************************************)
Adapters == {"object2detector", "detector2object"}

\* the last operation was an adapter call
Called == call.op \in Adapters

\* the angular-spectrum family
ASPFamily ==
    {"ASP", "polychromeASP", "scaledASP", "scaledPolychromeASP", "twoStepPolychrome"}

\* C1: whenever an adapter call returns a pair, the first element of the
\* pair is reconstruction.esw as stored at call time, for every model and
\* both directions.
C1_FirstIsStoredEsw ==
    (Called /\ ~ret.raised) => ret.first = call.reconstruction.esw

\* C2: an adapter call with a propagatorType that is none of the seven
\* model names raises, returns no field, enters no propagator, makes no
\* kernel request and leaves every cache and its statistics as they were,
\* with or without an explicit field.
C2_UnknownTypeFails ==
    [][ (call'.op \in Adapters /\ call'.params.propagatorType \notin PropagatorTypes)
        => /\ ret'.raised
           /\ ret'.error = "KeyError"
           /\ ret'.first = None /\ ret'.second = None
           /\ ret'.entered = <<>>
           /\ requests' = <<>>
           /\ cache' = cache /\ built' = built
           /\ hits' = hits /\ misses' = misses ]_vars

\* an unknown model name was rejected while a kernel was cached, the call
\* passing an explicit field
C2_Witness ==
    /\ call.op = "detector2object"
    /\ call.params.propagatorType = "Kirchhoff"
    /\ call.fields # None
    /\ ret.raised
    /\ \E fn \in CachedFunctions : cache[fn] # <<>>

\* the propagator function that carries out each model's transform
CoreFunction ==
    [Fraunhofer |-> "propagate_fraunhofer",
     Fresnel |-> "propagate_fresnel",
     ASP |-> "propagate_ASP",
     polychromeASP |-> "propagate_polychromeASP",
     scaledASP |-> "propagate_scaledASP",
     scaledPolychromeASP |-> "propagate_scaledPolychromeASP",
     twoStepPolychrome |-> "propagate_twoStepPolychrome"]

\* the inverse function of each model
InverseFunction ==
    [Fraunhofer |-> "propagate_fraunhofer_inv",
     Fresnel |-> "propagate_fresnel_inv",
     ASP |-> "propagate_ASP_inv",
     polychromeASP |-> "propagate_polychromeASP_inv",
     scaledASP |-> "propagate_scaledASP_inv",
     scaledPolychromeASP |-> "propagate_scaledPolychromeASP_inv",
     twoStepPolychrome |-> "propagate_twoStepPolychrome_inv"]

\* the models whose inverse function is the core function called with inverse=True
SharedCore == PropagatorTypes \ {"Fraunhofer", "Fresnel"}

\* C3: the two lookup tables have the seven model names as their key set;
\* object2detector enters the forward function of the configured model and
\* nothing else, detector2object enters the inverse function of the same
\* model, and where the inverse is the core function of the model that
\* function runs with inverse = TRUE, at least once.
C3_RegistryDispatch ==
    /\ DOMAIN forward_lookup_dictionary = PropagatorTypes
    /\ DOMAIN reverse_lookup_dictionary = PropagatorTypes
    /\ (Called /\ call.params.propagatorType \in PropagatorTypes) =>
         LET type == call.params.propagatorType
             e == ret.entered
         IN IF call.op = "object2detector"
            THEN e = Entered(CoreFunction[type], FALSE)
            ELSE /\ Len(e) >= 1
                 /\ e[1] = [fn |-> InverseFunction[type], inverse |-> FALSE]
                 /\ IF type \in SharedCore
                    THEN /\ Len(e) >= 2
                         /\ \A i \in 2..Len(e) :
                               e[i] = [fn |-> CoreFunction[type], inverse |-> TRUE]
                    ELSE Len(e) = 1

\* detector2object ran the ASP model and returned
C3_Witness ==
    /\ call.op = "detector2object"
    /\ call.params.propagatorType = "ASP"
    /\ ~ret.raised
    /\ Len(ret.entered) = 2

\* C4: an adapter call of an angular-spectrum-family model with
\* fftshiftSwitch enabled raises ValueError and returns no field, in every
\* cache state.
C4_ShiftRejected ==
    (Called /\ call.params.propagatorType \in ASPFamily /\ call.params.fftshiftSwitch)
        => /\ ret.raised
           /\ ret.error = "ValueError"
           /\ ret.first = None /\ ret.second = None

\* polychromeASP was called with the flag enabled while the kernel of the
\* same parameters with the flag disabled was cached
C4_Witness ==
    /\ Called
    /\ call.params.propagatorType = "polychromeASP"
    /\ call.params.fftshiftSwitch
    /\ ret.raised
    /\ LET r == call.reconstruction IN
       Key(<<"polychromeASP", FALSE, r.nosm, r.npsm, r.Np, r.zo, r.wavelength, r.Lp,
             r.nlambda, spectralDensity_as_tuple(r), call.params.gpuSwitch>>, <<>>)
          \in Keys(cache[make_transferfunction_polychrome_ASP_name])

\* C5: ASP and scaledASP called through an adapter with nlambda > 1 raise
\* ValueError and return no field, in every cache state; with nlambda = 1
\* and fftshiftSwitch disabled the call returns.
C5_SingleWavelengthOnly ==
    (Called /\ call.params.propagatorType \in {"ASP", "scaledASP"}) =>
        /\ call.reconstruction.nlambda > 1 =>
              /\ ret.raised
              /\ ret.error = "ValueError"
              /\ ret.first = None /\ ret.second = None
        /\ (call.reconstruction.nlambda = 1 /\ ~call.params.fftshiftSwitch) => ~ret.raised

\* scaledASP was called with two wavelengths while its kernel for one
\* wavelength and otherwise the same parameters was cached
C5_Witness ==
    /\ Called
    /\ call.params.propagatorType = "scaledASP"
    /\ ~call.params.fftshiftSwitch
    /\ call.reconstruction.nlambda = 2
    /\ ret.raised
    /\ LET r == call.reconstruction IN
       Key(<<"scaledASP", FALSE, 1, r.nosm, r.npsm, r.Np, r.zo, r.wavelength, r.dxo, r.dxd,
             call.params.gpuSwitch>>, <<>>)
          \in Keys(cache[make_transferfunction_scaledASP_name])

\* the parameter tuple of a cache key: the values bound to the parameters
\* of the cached function, device flag included
BoundArgs(key) == key.args \o [i \in 1..Len(key.kwds) |-> key.kwds[i].value]

\* C6: for every kernel kind, as long as nothing was evicted, requests with
\* identical parameter tuples (device flag included, spectral density as a
\* tuple of its entries) share one cache entry and one computation, and
\* parameter tuples that differ have separate entries: the number of
\* kernels computed is the number of distinct parameter tuples cached.
C6_OneComputationPerTuple ==
    \A fn \in CachedFunctions :
        built[fn] = Len(cache[fn]) =>
            /\ \A i, j \in 1..Len(cache[fn]) :
                  (BoundArgs(cache[fn][i].key) = BoundArgs(cache[fn][j].key)) <=> (i = j)
            /\ built[fn] = Cardinality({BoundArgs(k) : k \in Keys(cache[fn])})

\* the request number of the last use of a cached key
StampOf(stamps, key) == (CHOOSE r \in stamps : r.key = key).t

\* C7: no cache ever holds more than cache_size entries; an adapter call
\* removes an entry only from a cache that is full afterwards, and the
\* entry removed was last used (inserted or hit) before the last use of
\* every entry that stays.
C7_BoundedLeastRecentlyUsed ==
    [][ /\ \A fn \in CachedFunctions : Len(cache'[fn]) <= cache_size
        /\ call'.op \in Adapters =>
             \A fn \in CachedFunctions :
                \A k \in Keys(cache[fn]) \ Keys(cache'[fn]) :
                   /\ Len(cache'[fn]) = cache_size
                   /\ \A k2 \in Keys(cache[fn]) \cap Keys(cache'[fn]) :
                         StampOf(lastUse[fn], k) < StampOf(lastUse'[fn], k2) ]_vars

\* a full cache that has evicted entries and still holds the first kernel
\* it computed, because that one was hit, while the second one is gone
C7_Witness ==
    \E fn \in CachedFunctions :
        /\ Len(cache[fn]) = cache_size
        /\ built[fn] > cache_size
        /\ hits[fn] > 0
        /\ \E i \in 1..Len(cache[fn]) : cache[fn][i].value.serial = 1
        /\ \A i \in 1..Len(cache[fn]) : cache[fn][i].value.serial # 2

\* C8: after clear_cache returns, with or without a logger, the cache of
\* every function decorated with lru_cache is empty and its counters are
\* zero (no cached function is missing from the list clear_cache walks),
\* and in the next adapter call a key is hit only after the same call has
\* computed it.
C8_ClearEmptiesEveryCache ==
    /\ call.op = "clear_cache" =>
          \A fn \in CachedFunctions :
             cache[fn] = <<>> /\ hits[fn] = 0 /\ misses[fn] = 0
    /\ (Called /\ ncalls = 1) =>
          \A i \in 1..Len(requests) :
             requests[i].outcome = "hit" =>
                \E j \in 1..(i - 1) :
                   /\ requests[j].fn = requests[i].fn
                   /\ requests[j].key = requests[i].key
                   /\ requests[j].outcome = "miss"

\* clear_cache without a logger has dropped cached kernels
C8_Witness ==
    /\ call.op = "clear_cache"
    /\ ~call.logger
    /\ \E i \in 1..Len(report) : report[i].step = "cache_clear" /\ report[i].dropped > 0

\* C9: with a logger, clear_cache reports for each cached function the
\* hits, misses and size that function's cache had when clear_cache was
\* called, and reports them before it clears that cache; without a logger
\* it reports nothing; in both cases every cache is empty afterwards.
C9_ReportPrecedesClear ==
    [][ call'.op = "clear_cache" =>
          /\ \A fn \in CachedFunctions : cache'[fn] = <<>>
          /\ IF call'.logger
             THEN \A fn \in CachedFunctions :
                     \E i \in 1..Len(report') :
                        /\ report'[i] =
                              [step |-> "debug", method |-> fn,
                               info |-> [fn |-> fn, hits |-> hits[fn], misses |-> misses[fn],
                                         maxsize |-> cache_size,
                                         currsize |-> Len(cache[fn])]]
                        /\ \A j \in 1..Len(report') :
                              (report'[j].step = "cache_clear" /\ report'[j].method = fn)
                                  => j > i
             ELSE \A i \in 1..Len(report') : report'[i].step = "cache_clear" ]_vars

\* clear_cache reported a cache that held a kernel and had been hit
C9_Witness ==
    /\ call.op = "clear_cache"
    /\ call.logger
    /\ \E i \in 1..Len(report) :
          /\ report[i].step = "debug"
          /\ report[i].info.hits > 0
          /\ report[i].info.currsize > 0

\* the field an adapter call propagates
Propagated(c) ==
    IF c.fields # None THEN c.fields
    ELSE IF c.op = "object2detector" THEN c.reconstruction.esw
    ELSE c.reconstruction.ESW

\* C10: for every model, when object2detector has returned and
\* detector2object is then called with the same params and reconstruction
\* on the transformed field, it returns the field object2detector was
\* applied to.
C10_RoundTrip ==
    [][ ( /\ call.op = "object2detector" /\ ~ret.raised
          /\ call'.op = "detector2object"
          /\ call'.fields = ret.second
          /\ call'.params = call.params
          /\ call'.reconstruction = call.reconstruction )
        => (~ret'.raised /\ ret'.second = Propagated(call)) ]_vars

\* C11: an adapter call without a field propagates reconstruction.esw, in
\* detector2object as in object2detector; a call with an explicit field
\* propagates that field and transforms no stored array: the returned
\* field is computed from it.
C11_DefaultFieldIsEsw ==
    (Called /\ ~ret.raised) =>
        /\ ret.second.base = (IF call.fields = None
                              THEN call.reconstruction.esw.base
                              ELSE call.fields.base)
        /\ call.fields # None => ret.first.ops = <<>>

\* C12: after an adapter call has returned or raised, the caller's objects
\* are what they were when it was called: the passed field, params and
\* every attribute of reconstruction; the transformed field is returned,
\* never written into the field passed.
C12_InputsUnchanged ==
    [][ call'.op \in Adapters =>
          ret'.objects = [fields |-> call'.fields, params |-> call'.params,
                          reconstruction |-> call'.reconstruction] ]_vars

\* a Fresnel call has returned a transformed field for an explicit field
\* that the caller still holds as passed
C12_Witness ==
    /\ call.op = "object2detector"
    /\ call.params.propagatorType = "Fresnel"
    /\ call.fields # None
    /\ ~ret.raised
    /\ ret.second # call.fields
    /\ ret.objects.fields = call.fields

ScaledModels == {"scaledASP", "scaledPolychromeASP"}

\* a product with a kernel all of whose slices are the factor `fn` of
\* scaledASP, conjugated or not
IsProduct(o, fn, cj) ==
    /\ o.op = "mul"
    /\ o.conj = cj
    /\ o.k.terms # <<>>
    /\ \A n \in 1..Len(o.k.terms) : o.k.terms[n].fn = fn

\* C13: for both scaled models the forward transform is
\* ifft2c(fft2c(field * Q1) * Q2) and the inverse transform is its steps
\* conjugated and reversed, ifft2c(fft2c(field) * conj(Q2)) * conj(Q1).
C13_ScaledInverseReversesForward ==
    ( /\ Called /\ ~ret.raised
      /\ call.params.propagatorType \in ScaledModels
      /\ Propagated(call).ops = <<>> )
    => LET ops == ret.second.ops IN
       /\ Len(ops) = 4
       /\ IF call.op = "object2detector"
          THEN /\ IsProduct(ops[1], "scaledASP_Q1", FALSE)
               /\ ops[2].op = "fft2c"
               /\ IsProduct(ops[3], "scaledASP_Q2", FALSE)
               /\ ops[4].op = "ifft2c"
          ELSE /\ ops[1].op = "fft2c"
               /\ IsProduct(ops[2], "scaledASP_Q2", TRUE)
               /\ ops[3].op = "ifft2c"
               /\ IsProduct(ops[4], "scaledASP_Q1", TRUE)

(***************************************************************************)
(* Grid sizes: an engine that passes fields of the grid size of the        *)
(* reconstruction (Np = 4) and fields of another grid size, under valid    *)
(* configurations of every model.                                          *)
(***************************************************************************)
GridFields == {Field("f", 4, FALSE), Field("f", 8, FALSE)}

GridForward ==
    /\ ncalls < MaxCalls
    /\ \E params \in SweepParams, fields \in GridFields :
          Object2Detector(fields, params, SweepReconstruction(params, 1))

GridInverse ==
    /\ ncalls < MaxCalls
    /\ \E params \in SweepParams, fields \in GridFields :
          Detector2Object(fields, params, SweepReconstruction(params, 1))

NextGrid == GridForward \/ GridInverse \/ EngineClear

SpecGrid == Init /\ [][NextGrid]_vars

\* the size of the last two dimensions of the kernel, or kernels, that a
\* cached function returns
GridSizeOfData(fn, data) ==
    IF fn \in {make_quad_phase_name, make_transferfunction_ASP_name,
               make_transferfunction_polychrome_ASP_name}
    THEN data.N
    ELSE data[1].N

\* the kernel data a logged request returned, read from the cache
KernelOf(entries, key) == entries[Find(entries, key)].value.data

\* C14: for every model that uses a kernel and both directions, when a
\* cached kernel has another grid size than the field being propagated, the
\* call succeeds, and every kernel it requests has the grid size of that
\* field.
C14_KernelForFieldGrid ==
    [][ ( /\ call'.op \in Adapters
          /\ call'.params.propagatorType # "Fraunhofer"
          /\ \E fn \in CachedFunctions :
                \E i \in 1..Len(cache[fn]) :
                   GridSizeOfData(fn, cache[fn][i].value.data) # Propagated(call').N )
        => /\ ~ret'.raised
           /\ \A i \in 1..Len(requests') :
                 GridSizeOfData(requests'[i].fn,
                                KernelOf(cache'[requests'[i].fn], requests'[i].key))
                    = Propagated(call').N ]_vars

\* the caches before any request
FreshMemory ==
    [cache |-> [fn \in CachedFunctions |-> <<>>],
     hits |-> [fn \in CachedFunctions |-> 0],
     misses |-> [fn \in CachedFunctions |-> 0],
     built |-> [fn \in CachedFunctions |-> 0],
     lastUse |-> [fn \in CachedFunctions |-> {}],
     requests |-> <<>>, objects |-> NoObjects]

\* the monochromatic kernels for one wavelength, as their factories build
\* them: the ASP transfer function, and the scaledASP pair for the pixel
\* spacings dxo and dxd that propagate_scaledASP passes
MonochromeASP(reconstruction, wavelength, gpu) ==
    make_transferfunction_ASP(FreshMemory, FALSE, reconstruction.nosm, reconstruction.npsm,
        reconstruction.Np, reconstruction.zo, wavelength, reconstruction.Lp, 1, gpu).value.data

MonochromeScaledASP(reconstruction, wavelength, gpu) ==
    make_transferfunction_scaledASP(FreshMemory, Key(<<>>, <<>>), FALSE, 1, reconstruction.Np,
        reconstruction.zo, wavelength, reconstruction.dxo, reconstruction.dxd, gpu).value.data

PolychromeModels == {"polychromeASP", "scaledPolychromeASP"}

\* C15: the kernel a polychromatic call has used has one slice per
\* wavelength; slice i of the polychromeASP kernel is the ASP kernel for
\* wavelength spectralDensity[i], and slice i of the scaledPolychromeASP
\* pair is the scaledASP pair for wavelength spectralDensity[i] and the
\* pixel spacings of propagate_scaledASP, with the same z and Np.
C15_PolychromeIsStackOfMonochrome ==
    ( /\ Called /\ ~ret.raised
      /\ call.params.propagatorType \in PolychromeModels )
    => LET reconstruction == call.reconstruction
           sd == reconstruction.spectralDensity.items
           gpu == call.params.gpuSwitch
           last == requests[Len(requests)]
           K == KernelOf(cache[last.fn], last.key)
       IN IF call.params.propagatorType = "polychromeASP"
          THEN /\ Len(K.terms) = Len(sd)
               /\ \A i \in 1..Len(sd) :
                     K.terms[i] = MonochromeASP(reconstruction, sd[i], gpu).terms[1]
          ELSE /\ Len(K[1].terms) = Len(sd) /\ Len(K[2].terms) = Len(sd)
               /\ \A i \in 1..Len(sd) :
                     /\ K[1].terms[i] = MonochromeScaledASP(reconstruction, sd[i], gpu)[1].terms[1]
                     /\ K[2].terms[i] = MonochromeScaledASP(reconstruction, sd[i], gpu)[2].terms[1]

(***************************************************************************)
(* aspw at one frequency sample.  The frequencies are X = n / L for n in   *)
(* arange(-N/2, N/2); quantities under the square root are kept as         *)
(* integers by counting them in units of 1 / L^2.                          *)
(***************************************************************************)
\* the numerators n of X = np.arange(-N/2, N/2) / L
aspw_X(N) == (0 - (N \div 2)) .. ((N \div 2) - 1)

\* exponent = 1 - (Fx * wavelength) ** 2 - (Fy * wavelength) ** 2
aspw_exponent(n, m, wavelength, L) ==
    L * L - (n * wavelength) * (n * wavelength) - (m * wavelength) * (m * wavelength)

\* mask = exponent > 0
aspw_mask(n, m, wavelength, L) == aspw_exponent(n, m, wavelength, L) > 0

\* exponent = xp.clip(mask, 0, None): the mask itself, 1 where it is set
aspw_clip(n, m, wavelength, L) == IF aspw_mask(n, m, wavelength, L) THEN L * L ELSE 0

\* H = mask * exp(1j * k * z * sqrt(exponent)) at the sample: whether H is
\* zero there, and the quantity under the square root
aspw_H(n, m, wavelength, L) ==
    [zero |-> ~aspw_mask(n, m, wavelength, L),
     radicand |-> aspw_clip(n, m, wavelength, L)]

\* the angular-spectrum kernels cached by ASP and polychromeASP
CachedAspwKernels ==
    UNION {{cache[fn][i].value.data : i \in 1..Len(cache[fn])} :
              fn \in {make_transferfunction_ASP_name,
                      make_transferfunction_polychrome_ASP_name}}

\* C16: in every slice of every cached angular-spectrum kernel, at every
\* frequency (Fx, Fy) = (n / L, m / L) of its grid: where
\* 1 - (lambda Fx)^2 - (lambda Fy)^2 is positive, that quantity (here in
\* units of 1 / L^2) is the one under the square root of the phase of H;
\* where it is not positive, H is 0.
C16_AspwPhaseFollowsFrequency ==
    \A K \in CachedAspwKernels :
       \A s \in 1..Len(K.terms) :
          \A n, m \in aspw_X(K.N) :
             LET wavelength == K.terms[s].wavelength
                 L == K.terms[s].p
                 quantity == L * L - (wavelength * n) * (wavelength * n)
                                   - (wavelength * m) * (wavelength * m)
                 H == aspw_H(n, m, wavelength, L)
             IN IF quantity > 0 THEN ~H.zero /\ H.radicand = quantity
                ELSE H.zero

\* the cache of each model's own kernel kind
OwnCache ==
    [Fresnel |-> make_quad_phase_name,
     ASP |-> make_transferfunction_ASP_name,
     polychromeASP |-> make_transferfunction_polychrome_ASP_name,
     scaledASP |-> make_transferfunction_scaledASP_name,
     scaledPolychromeASP |-> make_transferfunction_scaledPolychromeASP_name,
     twoStepPolychrome |-> make_cache_twoStepPolychrome_name]

\* the caches a call of a model may change according to C17
MayChange(propagatorType) ==
    (IF propagatorType \in DOMAIN OwnCache THEN {OwnCache[propagatorType]} ELSE {})
    \cup (IF propagatorType = "scaledPolychromeASP"
          THEN {make_transferfunction_scaledASP_name} ELSE {})
    \cup (IF propagatorType = "twoStepPolychrome" THEN {make_quad_phase_name} ELSE {})

\* the requests of the cached function fn among the first n logged
RequestsOf(log, fn, n) == {i \in 1..n : log[i].fn = fn}
MissesOf(log, fn) == {i \in 1..Len(log) : log[i].fn = fn /\ log[i].outcome = "miss"}

\* C17: an adapter call changes no cache but the one of its model's kernel
\* kind and, for scaledPolychromeASP, the scaledASP cache, for
\* twoStepPolychrome, the quadratic-phase cache.  Each miss of a
\* scaledPolychromeASP kernel is preceded by nlambda requests of the
\* scaledASP cache, the i-th for propagatorType None, nlambda 1 and
\* wavelength spectralDensity[i]; each miss of a twoStepPolychrome kernel by
\* one request of the quadratic-phase cache for (zo, spectralDensity[0], Np,
\* dxp, device); there are no other nested requests.
C17_NestedRequests ==
    [][ call'.op \in Adapters =>
          LET propagatorType == call'.params.propagatorType
              reconstruction == call'.reconstruction
              sd == reconstruction.spectralDensity.items
              nlambda == reconstruction.nlambda
              device == call'.params.gpuSwitch
              log == requests'
              scaled == make_transferfunction_scaledASP_name
              quad == make_quad_phase_name
          IN /\ \A fn \in CachedFunctions \ MayChange(propagatorType) :
                   cache'[fn] = cache[fn] /\ hits'[fn] = hits[fn] /\ misses'[fn] = misses[fn]
             /\ \A i \in MissesOf(log, make_transferfunction_scaledPolychromeASP_name) :
                   /\ i > nlambda
                   /\ \A j \in 1..nlambda :
                         LET q == log[i - nlambda + j - 1] IN
                         /\ q.fn = scaled
                         /\ BoundArgs(q.key)[1] = "None"
                         /\ BoundArgs(q.key)[3] = 1
                         /\ BoundArgs(q.key)[8] = sd[j]
                         /\ BoundArgs(q.key)[11] = device
             /\ \A i \in MissesOf(log, make_cache_twoStepPolychrome_name) :
                   /\ i > 1
                   /\ log[i - 1].fn = quad
                   /\ BoundArgs(log[i - 1].key)
                         = <<reconstruction.zo, sd[1], reconstruction.Np, reconstruction.dxp,
                             device>>
             /\ propagatorType = "scaledPolychromeASP" =>
                   Cardinality(RequestsOf(log, scaled, Len(log)))
                      = nlambda * Cardinality(MissesOf(log, make_transferfunction_scaledPolychromeASP_name))
             /\ propagatorType = "twoStepPolychrome" =>
                   Cardinality(RequestsOf(log, quad, Len(log)))
                      = Cardinality(MissesOf(log, make_cache_twoStepPolychrome_name)) ]_vars

\* a miss of a twoStepPolychrome kernel whose nested request refreshed a
\* quadratic phase cached before, and which left two kernels in the
\* two-step cache
C17_Witness ==
    /\ Called
    /\ call.params.propagatorType = "twoStepPolychrome"
    /\ ~ret.raised
    /\ \E i \in 1..Len(requests) :
          /\ requests[i].fn = make_quad_phase_name
          /\ requests[i].outcome = "hit"
    /\ Len(cache[make_cache_twoStepPolychrome_name]) = 2
    /\ Len(cache[make_quad_phase_name]) = 1

\* a configuration the angular-spectrum family rejects: the shift
\* convention enabled, or several wavelengths for ASP or scaledASP
InvalidConfiguration(c) ==
    /\ c.params.propagatorType \in ASPFamily
    /\ \/ c.params.fftshiftSwitch
       \/ /\ c.params.propagatorType \in {"ASP", "scaledASP"}
          /\ c.reconstruction.nlambda > 1

\* C18: an adapter call under a rejected configuration raises whatever the
\* caches hold, so also when it repeats a call that raised; it stores
\* nothing: every cache holds the same keys and the same kernels, in the
\* same order, after the call as before, and none of its requests returned
\* a value.
C18_FailedRequestStoresNothing ==
    [][ (call'.op \in Adapters /\ InvalidConfiguration(call')) =>
          /\ ret'.raised
          /\ ret'.error = "ValueError"
          /\ \A fn \in CachedFunctions :
                /\ Keys(cache'[fn]) = Keys(cache[fn])
                /\ cache'[fn] = cache[fn]
                /\ built'[fn] = built[fn]
          /\ \A i \in 1..Len(requests') : requests'[i].outcome = "raise" ]_vars

\* two rejected requests of one kernel kind were made since the last clear,
\* the second by the last call; both raised and the cache of that kind is
\* still empty
C18_Witness ==
    /\ Called
    /\ InvalidConfiguration(call)
    /\ ret.raised
    /\ ncalls = 2
    /\ \E fn \in CachedFunctions :
          /\ misses[fn] = 2
          /\ hits[fn] = 0
          /\ cache[fn] = <<>>
          /\ Len(requests) = 1
          /\ requests[1].fn = fn
          /\ requests[1].outcome = "raise"
          /\ lastUse[fn] = {}

====
